---- MODULE Spec2Model ----
(***************************************************************************)
(* Model of the two in-process guards of the bookings service:             *)
(*   - CircuitBreaker  (src/bookings_service/circuit_breaker.py)           *)
(*   - InMemoryRateLimiter and the rate_limit decorator                    *)
(*     (src/bookings_service/rate_limiter.py)                              *)
(*                                                                         *)
(* time.time() returns fractional seconds.  The model clock counts ticks,  *)
(* TicksPerSecond of them to the second, so that int() of a duration in    *)
(* seconds is a real truncation.  recovery_timeout and period are whole    *)
(* seconds, as at every construction site of the repository.               *)
(***************************************************************************)
EXTENDS Integers, Sequences, FiniteSets, TLC

\* ----------------------------------------------------------------- bounds
TicksPerSecond == 2
MaxTime == 8
MaxThreshold == 3
MaxRecovery == 2
MaxFailures == 5
MaxCalls == 2
MaxPeriod == 2
ScenarioAHorizon == 22
ScenarioBHorizon == 32
ConcThreshold == 2
ConcRecovery == 1
MaxConcFailures == 3
MaxTtl == 1
MfaHorizon == 3

\* ------------------------------------------------------------ value spaces
None == <<>>
Some(x) == <<x>>
Val(o) == o[1]

Results == {"user_a", "user_b"}
\* Exception classes the wrapped operation can raise.  HTTPError is a
\* subclass of requests.RequestException; ValueError is unrelated to it.
Exceptions == {"RequestException", "HTTPError", "ValueError"}

Pending == [kind |-> "pending", what |-> "", name |-> "", retry |-> 0]
Returned(v) == [kind |-> "return", what |-> v, name |-> "", retry |-> 0]
Raised(e) == [kind |-> "raise", what |-> e, name |-> "", retry |-> 0]

VARIABLES
    now,                \* time.time(), in ticks
    \* CircuitBreaker fields
    failure_threshold,
    recovery_timeout,
    state,
    failure_count,
    last_failure_time,
    \* the guarded call in progress (wrapper's frame)
    pc,                 \* "idle" | "running" (inside func(*args, **kwargs))
    call_now,           \* wrapper's local `now`
    \* observations of the current / last guarded call
    pre,                \* breaker fields when the call started
    invoke_state,       \* breaker state when func was invoked
    op_calls,           \* times func was invoked by the call
    op_outcome,         \* what func did
    call_outcome,       \* what the caller of wrapper got
    streak,             \* classified failures since construction / last success
    opened_at,          \* clock reading when a failing call last set state OPEN
    \* InMemoryRateLimiter fields
    calls,
    period,
    store,              \* self._store: key -> <<window_start, count>>
    \* observations of the last request through rate_limit's wrapper
    rl_key,             \* the key is_allowed was called with
    rl_pre,             \* the key's stored entry before the call
    rl_ret,             \* what is_allowed returned: <<allowed, retry_after>>
    response,           \* what the wrapper returned
    run,                \* per key: <<time of the call that opened its run, calls since>>
    solo,               \* per key: a limiter that sees this key's calls only
    last,               \* per key: <<time, return value>> of its last is_allowed call
    \* the limiters of the decorated endpoints
    limiters,           \* per limiter: its _store
    ep_last,            \* per endpoint: <<key, return value>> of its last is_allowed call
    ep_solo,            \* per endpoint: a limiter that sees this endpoint's requests only
    \* concurrent callers of one breaker (threads inside wrapper)
    th,                 \* per thread: [pc, now, tmp], its place and locals
    failed,             \* calls whose operation raised a classified exception
    clean,              \* no operation has returned or raised anything else
    \* concurrent callers of one limiter (threads inside is_allowed)
    lth,                \* per thread: [pc, now, entry], its place and locals
    admitted,           \* per window_start: calls admitted into that window
    \* observations of the callers of the two guards
    admit_times,        \* times of the admitted calls of one key, a period back
    http,               \* get_user_bookings: the outcome it saw and its response
    \* users_service.mfa
    mfa_challenges,     \* the module's dict: challenge_id -> its record
    issued,             \* the challenge ids handed out so far
    mfa_created,        \* per id handed out: its record, creation time and ttl
    mfa_verified,       \* ids for which verify_mfa_challenge has returned True
    mfa_last            \* the last verify_mfa_challenge call: its id and outcome

cbvars == <<failure_threshold, recovery_timeout, state, failure_count,
            last_failure_time, pc, call_now, pre, invoke_state, op_calls,
            op_outcome, call_outcome, streak, opened_at>>

rlvars == <<calls, period, store, rl_key, rl_pre, rl_ret, response,
            run, solo, last>>

epvars == <<limiters, ep_last, ep_solo>>

\* the sequential call frame and its observations
cbframe == <<pc, call_now, pre, invoke_state, op_calls, op_outcome,
             call_outcome, streak, opened_at>>

\* the observations of the sequential limiter
rlobs == <<rl_key, rl_pre, rl_ret, response, run, solo, last>>

cbthreads == <<th, failed, clean>>

rlthreads == <<lth, admitted>>

ccvars == <<cbthreads, rlthreads>>

hvars == <<admit_times, http>>

mfavars == <<mfa_challenges, issued, mfa_created, mfa_verified, mfa_last>>

vars == <<now, cbvars, rlvars, epvars, ccvars, hvars, mfavars>>

\* ------------------------------------------------------------ CircuitBreaker
name == "users_service"
expected_exception == "RequestException"

\* int(x) for a non-negative duration of `ticks` ticks, in seconds
IntSeconds(ticks) == ticks \div TicksPerSecond

\* isinstance(exc, cls) for the classes of Exceptions
IsInstance(e, cls) ==
    \/ e = cls
    \/ cls = "Exception"
    \/ (cls = "RequestException" /\ e = "HTTPError")

\* def current_state(self): return self.state
current_state == state

Fields == [state |-> state, failure_count |-> failure_count,
           last_failure_time |-> last_failure_time]

\* mutant: the boundary counted as still cooling down
CooldownActive_inclusive(t) ==
    (t - Val(last_failure_time)) <= recovery_timeout * TicksPerSecond

\* (now - self.last_failure_time) < self.recovery_timeout
CooldownActive(t) ==
    (t - Val(last_failure_time)) < recovery_timeout * TicksPerSecond

\* mutant: the time since the failure shown instead of the time left
RetryAfterShown_elapsed(t) == IntSeconds(t - Val(last_failure_time))

\* int(self.recovery_timeout - (now - self.last_failure_time))
RetryAfterShown(t) ==
    IntSeconds(recovery_timeout * TicksPerSecond - (t - Val(last_failure_time)))

ServiceUnavailable(t) ==
    [kind |-> "raise", what |-> "ServiceUnavailable", name |-> name,
     retry |-> RetryAfterShown(t)]

\* mutant: opens one failure late
ThresholdReached_late(n) == n > failure_threshold

\* mutant: opens only when the count is exactly the threshold
ThresholdReached_exact(n) == n = failure_threshold

\* self.failure_count >= self.failure_threshold
ThresholdReached(n) == n >= failure_threshold

\* mutant: a bare `except Exception`
IsClassified_any(e) == IsInstance(e, "Exception")

\* except self.expected_exception
IsClassified(e) == IsInstance(e, expected_exception)

\* mutant: the count started again when the breaker opens
AfterFailure_countReset(t) ==
    [state |-> IF ThresholdReached(failure_count + 1) THEN "OPEN" ELSE state,
     failure_count |-> IF ThresholdReached(failure_count + 1) THEN 0
                       ELSE failure_count + 1,
     last_failure_time |-> Some(t)]

\* mutant: a failure that opens the breaker without recording its time
AfterFailure_noTime(t) ==
    [state |-> IF ThresholdReached(failure_count + 1) THEN "OPEN" ELSE state,
     failure_count |-> failure_count + 1,
     last_failure_time |-> last_failure_time]

\* fields after a classified failure of the call that captured `t`
AfterFailure(t) ==
    [state |-> IF ThresholdReached(failure_count + 1) THEN "OPEN" ELSE state,
     failure_count |-> failure_count + 1,
     last_failure_time |-> Some(t)]

\* mutant: a success that forgets to reset failure_count
AfterSuccess_keepsCount ==
    [state |-> "CLOSED", failure_count |-> failure_count,
     last_failure_time |-> None]

\* mutant: a success that forgets to clear last_failure_time
AfterSuccess_keepsTime ==
    [state |-> "CLOSED", failure_count |-> 0,
     last_failure_time |-> last_failure_time]

\* fields after a success
AfterSuccess ==
    [state |-> "CLOSED", failure_count |-> 0, last_failure_time |-> None]

\* mutant: a classified failure below the threshold is tried again
AfterExcept_retry(e) ==
    IF ThresholdReached(failure_count + 1) THEN "idle" ELSE "running"

\* raise exc: the except branch ends the call, func is not called again
AfterExcept(e) == "idle"

\* mutant: the operation's failure replaced by the breaker's own error
Propagated_masked(o) ==
    IF o.kind = "raise"
    THEN [kind |-> "raise", what |-> "ServiceUnavailable", name |-> name,
          retry |-> 0]
    ELSE o

\* raise exc / return result: what func produced goes to the caller as it is
Propagated(o) == o

SetFields(f) ==
    /\ state' = f.state
    /\ failure_count' = f.failure_count
    /\ last_failure_time' = f.last_failure_time

\* the fields and the call frame of a breaker just constructed
CBStart ==
    /\ state = "CLOSED"
    /\ failure_count = 0
    /\ last_failure_time = None
    /\ pc = "idle"
    /\ call_now = 0
    /\ pre = [state |-> "CLOSED", failure_count |-> 0, last_failure_time |-> None]
    /\ invoke_state = "CLOSED"
    /\ op_calls = 0
    /\ op_outcome = Pending
    /\ call_outcome = Pending
    /\ streak = 0
    /\ opened_at = None

CBInit ==
    /\ failure_threshold \in 1..MaxThreshold
    /\ recovery_timeout \in 1..MaxRecovery
    /\ CBStart

\* wrapper, from `now = time.time()` up to the call of func (or the raise of
\* ServiceUnavailable, which ends the call)
Begin ==
    /\ pc = "idle"
    /\ call_now' = now
    /\ pre' = Fields
    /\ op_outcome' = Pending
    /\ UNCHANGED <<now, failure_threshold, recovery_timeout, failure_count,
                   last_failure_time, streak, opened_at, rlvars, epvars,
                   ccvars, hvars, mfavars>>
    /\ IF state = "OPEN" /\ last_failure_time = None
       THEN \* assert self.last_failure_time is not None
            /\ call_outcome' = Raised("AssertionError")
            /\ op_calls' = 0
            /\ UNCHANGED <<state, pc, invoke_state>>
       ELSE IF state = "OPEN" /\ CooldownActive(now)
       THEN /\ call_outcome' = ServiceUnavailable(now)
            /\ op_calls' = 0
            /\ UNCHANGED <<state, pc, invoke_state>>
       ELSE /\ state' = IF state = "OPEN" THEN "HALF_OPEN" ELSE state
            /\ invoke_state' = state'
            /\ pc' = "running"
            /\ op_calls' = 1
            /\ call_outcome' = Pending

\* func returns v: the else branch of the try
OperationReturns(v) ==
    /\ pc = "running"
    /\ SetFields(AfterSuccess)
    /\ op_outcome' = Returned(v)
    /\ call_outcome' = Propagated(Returned(v))
    /\ streak' = 0
    /\ pc' = "idle"
    /\ UNCHANGED <<now, failure_threshold, recovery_timeout, call_now, pre,
                   invoke_state, op_calls, opened_at, rlvars, epvars, ccvars,
                   hvars, mfavars>>

\* func raises e: the except branch when e is an expected_exception,
\* plain propagation otherwise
OperationRaises(e) ==
    /\ pc = "running"
    /\ op_outcome' = Raised(e)
    /\ pc' = IF IsClassified(e) THEN AfterExcept(e) ELSE "idle"
    /\ op_calls' = IF pc' = "running" THEN op_calls + 1 ELSE op_calls
    /\ call_outcome' = IF pc' = "idle" THEN Propagated(Raised(e)) ELSE Pending
    /\ IF IsClassified(e)
       THEN /\ failure_count < MaxFailures
            /\ SetFields(AfterFailure(call_now))
       ELSE UNCHANGED <<state, failure_count, last_failure_time>>
    /\ streak' = IF IsInstance(e, "RequestException") /\ streak < MaxFailures
                 THEN streak + 1 ELSE streak
    /\ opened_at' = IF IsClassified(e) /\ AfterFailure(call_now).state = "OPEN"
                    THEN Some(now) ELSE opened_at
    /\ UNCHANGED <<now, failure_threshold, recovery_timeout, call_now, pre,
                   invoke_state, rlvars, epvars, ccvars, hvars, mfavars>>

\* ------------------------------------------------------- InMemoryRateLimiter
\* request.remote_addr: an address, or None
RemoteAddrs == {Some("10.0.0.1"), None}
Keys == {"10.0.0.1", "unknown"}

EmptyStore == [k \in {} |-> <<0, 0>>]

\* dict.get(key, default)
Get(st, key, default) == IF key \in DOMAIN st THEN st[key] ELSE default

\* mutant: a store that keeps the last key only
Put_single(st, key, entry) == [k \in {key} |-> entry]

\* st[key] = entry
Put(st, key, entry) ==
    [k \in (DOMAIN st) \cup {key} |-> IF k = key THEN entry ELSE st[k]]

\* mutant: one entry shared by all keys
Lookup_shared(st, key, t) ==
    IF DOMAIN st = {} THEN <<t, 0>> ELSE st[CHOOSE k \in DOMAIN st : TRUE]

\* window, count = self._store.get(key, [now, 0])
Lookup(st, key, t) == Get(st, key, <<t, 0>>)

\* mutant: the window given up one tick before the period is over
WindowExpired_early(t, window) == t - window >= period * TicksPerSecond - 1

\* mutant: the boundary left in the old window
WindowExpired_strict(t, window) == t - window > period * TicksPerSecond

\* now - window >= self.period
WindowExpired(t, window) == t - window >= period * TicksPerSecond

\* mutant: one call too many admitted
QuotaUsed_late(count) == count > calls

\* count >= self.calls
QuotaUsed(count) == count >= calls

\* mutant: the whole period announced, whatever part of the window is over
RetryAfter_fullPeriod(t, window) == period * TicksPerSecond

\* max(0.0, retry) with retry = self.period - (now - window), in ticks
RetryAfter(t, window) ==
    LET retry == period * TicksPerSecond - (t - window)
    IN  IF retry > 0 THEN retry ELSE 0

\* mutant: a rejected call counted like an admitted one
RejectedEntry_counted(window, count) == <<window, count + 1>>

\* the entry left for a rejected call
RejectedEntry(window, count) == <<window, count>>

\* the entry left for an admitted call
AdmittedEntry(window, count) == <<window, count + 1>>

\* is_allowed(key) on store st at time t:
\* the store it leaves and the pair it returns
is_allowed(st, key, t) ==
    LET e == Lookup(st, key, t)
        expired == WindowExpired(t, e[1])
        window == IF expired THEN t ELSE e[1]
        count == IF expired THEN 0 ELSE e[2]
    IN  IF QuotaUsed(count)
        THEN [store |-> Put(st, key, RejectedEntry(window, count)),
              ret |-> <<FALSE, Some(RetryAfter(t, window))>>]
        ELSE [store |-> Put(st, key, AdmittedEntry(window, count)),
              ret |-> <<TRUE, None>>]

\* client_ip = request.remote_addr or "unknown"
ClientKey(addr) == IF addr = None THEN "unknown" ELSE Val(addr)

\* str(int(retry_after)) of the Retry-After header and of the message
RetryAfterHeader(retry) == IntSeconds(retry)

\* the 429 response of the wrapper
TooManyRequests(retry) ==
    [status |-> 429, retry_after |-> Some(RetryAfterHeader(retry)),
     message |-> Some(IntSeconds(retry))]

\* the response of the decorated view function
ViewResponse == [status |-> 200, retry_after |-> None, message |-> None]

\* the store and the observations of a limiter just constructed
RLStart ==
    /\ store = EmptyStore
    /\ rl_key = None
    /\ rl_pre = None
    /\ rl_ret = <<TRUE, None>>
    /\ response = ViewResponse
    /\ run = [k \in Keys |-> <<0, 0>>]
    /\ solo = [k \in Keys |-> [store |-> EmptyStore, ret |-> <<TRUE, None>>]]
    /\ last = [k \in Keys |-> None]

RLInit ==
    /\ calls \in 1..MaxCalls
    /\ period \in 1..MaxPeriod
    /\ RLStart

\* is_allowed as rate_limit's wrapper calls it for a client at addr, and
\* the wrapper's answer
Decide(addr) ==
    LET key == ClientKey(addr)
        r == is_allowed(store, key, now)
        fresh == run[key][2] = 0 \/ now - run[key][1] >= period * TicksPerSecond
    IN  /\ store' = r.store
        /\ rl_key' = Some(key)
        /\ rl_pre' = IF key \in DOMAIN store THEN Some(store[key]) ELSE None
        /\ rl_ret' = r.ret
        /\ response' = IF r.ret[1] THEN ViewResponse
                       ELSE TooManyRequests(Val(r.ret[2]))
        /\ run' = [run EXCEPT ![key] =
                      IF fresh THEN <<now, 1>>
                      ELSE <<run[key][1],
                             IF run[key][2] <= calls THEN run[key][2] + 1
                             ELSE run[key][2]>>]
        /\ solo' = [solo EXCEPT ![key] = is_allowed(solo[key].store, key, now)]
        /\ last' = [last EXCEPT ![key] = Some(<<now, r.ret>>)]
        /\ UNCHANGED <<now, calls, period>>
        /\ UNCHANGED <<cbvars, epvars, ccvars>>

\* one call through rate_limit's wrapper, from a client at addr
Request(addr) == Decide(addr) /\ UNCHANGED <<hvars, mfavars>>

\* an admission at time t is within a period of a call at time `at`
StillRecent(t, at) == at - t <= period * TicksPerSecond

\* the same call, its time noted when it is admitted
TimedRequest(addr) ==
    LET Keep(t) == StillRecent(t, now)
    IN  /\ Decide(addr)
        /\ admit_times' =
              IF is_allowed(store, ClientKey(addr), now).ret[1]
              THEN Append(SelectSeq(admit_times, Keep), now)
              ELSE admit_times
        /\ UNCHANGED <<http, mfavars>>

\* ------------------------------------------------- rate-limited endpoints
\* the view functions decorated with @rate_limit(...)
Endpoints == {"register_user", "login_user"}

\* the client whose requests reach the endpoints
EndpointClients == {Some("10.0.0.1")}

\* mutant: one limiter built at import time and shared by every decoration
LimiterOf_shared(ep) == "register_user"

\* limiter = InMemoryRateLimiter(calls, period): built by each rate_limit(...)
\* call, so every decorated endpoint holds a limiter of its own
LimiterOf(ep) == ep

EPInit ==
    /\ limiters = [id \in Endpoints |-> EmptyStore]
    /\ ep_last = [ep \in Endpoints |-> None]
    /\ ep_solo = [ep \in Endpoints |-> [store |-> EmptyStore, last |-> None]]

\* one request to endpoint ep from a client at addr, up to the wrapper's
\* decision
RequestTo(ep, addr) ==
    LET key == ClientKey(addr)
        id == LimiterOf(ep)
        r == is_allowed(limiters[id], key, now)
        a == is_allowed(ep_solo[ep].store, key, now)
    IN  /\ limiters' = [limiters EXCEPT ![id] = r.store]
        /\ ep_last' = [ep_last EXCEPT ![ep] = Some(<<key, r.ret>>)]
        /\ ep_solo' = [ep_solo EXCEPT ![ep] =
                          [store |-> a.store, last |-> Some(<<key, a.ret>>)]]
        /\ UNCHANGED <<now, cbvars, rlvars, ccvars, hvars, mfavars>>

\* ------------------------------------------- concurrent guarded calls
\* The wrapper takes no lock: calls from several threads interleave between
\* any two reads or writes of self.state, self.failure_count and
\* self.last_failure_time.
Threads == {"t1", "t2"}

\* a thread outside wrapper
IdleFrame == [pc |-> "idle", now |-> 0, tmp |-> 0]

AllIdle == \A t \in Threads : th[t].pc = "idle"

Goto(t, p) == th' = [th EXCEPT ![t].pc = p]

Leave(t) == th' = [th EXCEPT ![t] = IdleFrame]

\* what a step of thread t leaves alone besides the fields it names
ThreadFrame ==
    UNCHANGED <<now, failure_threshold, recovery_timeout, cbframe, rlvars,
                epvars, rlthreads, hvars, mfavars>>

\* now = time.time()
Enter(t) ==
    /\ th[t].pc = "idle"
    /\ th' = [th EXCEPT ![t] = [pc |-> "L57", now |-> now, tmp |-> 0]]
    /\ UNCHANGED <<state, failure_count, last_failure_time, failed, clean>>
    /\ ThreadFrame

\* mutant: a caller that finds a trial in progress is turned away
CheckOpen_singleTrial(t) ==
    /\ th[t].pc = "L57"
    /\ IF state = "HALF_OPEN" /\ \E u \in Threads \ {t} : th[u].pc = "L69"
       THEN Leave(t)
       ELSE Goto(t, IF state = "OPEN" THEN "L58" ELSE "L69")
    /\ UNCHANGED <<state, failure_count, last_failure_time, failed, clean>>
    /\ ThreadFrame

\* if self.state == "OPEN":
CheckOpen(t) ==
    /\ th[t].pc = "L57"
    /\ Goto(t, IF state = "OPEN" THEN "L58" ELSE "L69")
    /\ UNCHANGED <<state, failure_count, last_failure_time, failed, clean>>
    /\ ThreadFrame

\* assert self.last_failure_time is not None
AssertTime(t) ==
    /\ th[t].pc = "L58"
    /\ IF last_failure_time = None
       THEN Leave(t)               \* AssertionError
       ELSE Goto(t, "L59")
    /\ UNCHANGED <<state, failure_count, last_failure_time, failed, clean>>
    /\ ThreadFrame

\* if (now - self.last_failure_time) < self.recovery_timeout:
CheckCooldown(t) ==
    /\ th[t].pc = "L59"
    /\ IF last_failure_time = None
       THEN Leave(t)               \* TypeError: float - None
       ELSE Goto(t, IF CooldownActive(th[t].now) THEN "L61" ELSE "L66")
    /\ UNCHANGED <<state, failure_count, last_failure_time, failed, clean>>
    /\ ThreadFrame

\* raise ServiceUnavailable(...), or the TypeError of its message when
\* last_failure_time has been cleared meanwhile
Reject(t) ==
    /\ th[t].pc = "L61"
    /\ Leave(t)
    /\ UNCHANGED <<state, failure_count, last_failure_time, failed, clean>>
    /\ ThreadFrame

\* self.state = "HALF_OPEN"
TryHalfOpen(t) ==
    /\ th[t].pc = "L66"
    /\ state' = "HALF_OPEN"
    /\ Goto(t, "L69")
    /\ UNCHANGED <<failure_count, last_failure_time, failed, clean>>
    /\ ThreadFrame

\* result = func(*args, **kwargs) returns
FuncReturns(t) ==
    /\ th[t].pc = "L69"
    /\ Goto(t, "L83")
    /\ clean' = FALSE
    /\ UNCHANGED <<state, failure_count, last_failure_time, failed>>
    /\ ThreadFrame

\* func raises e: into the except branch when e is an expected_exception,
\* out of wrapper otherwise
FuncRaises(t, e) ==
    /\ th[t].pc = "L69"
    /\ IF IsClassified(e)
       THEN /\ failed < MaxConcFailures
            /\ failed' = failed + 1
            /\ Goto(t, "L72")
            /\ UNCHANGED clean
       ELSE /\ Leave(t)
            /\ clean' = FALSE
            /\ UNCHANGED failed
    /\ UNCHANGED <<state, failure_count, last_failure_time>>
    /\ ThreadFrame

\* self.failure_count += 1, the read
ReadCount(t) ==
    /\ th[t].pc = "L72"
    /\ th' = [th EXCEPT ![t].pc = "L72w", ![t].tmp = failure_count]
    /\ UNCHANGED <<state, failure_count, last_failure_time, failed, clean>>
    /\ ThreadFrame

\* self.failure_count += 1, the write
WriteCount(t) ==
    /\ th[t].pc = "L72w"
    /\ failure_count' = th[t].tmp + 1
    /\ th' = [th EXCEPT ![t].pc = "L73", ![t].tmp = 0]
    /\ UNCHANGED <<state, last_failure_time, failed, clean>>
    /\ ThreadFrame

\* self.last_failure_time = now
StampFailure(t) ==
    /\ th[t].pc = "L73"
    /\ last_failure_time' = Some(th[t].now)
    /\ Goto(t, "L76")
    /\ UNCHANGED <<state, failure_count, failed, clean>>
    /\ ThreadFrame

\* if self.failure_count >= self.failure_threshold: ... raise exc
CheckThreshold(t) ==
    /\ th[t].pc = "L76"
    /\ IF ThresholdReached(failure_count) THEN Goto(t, "L77") ELSE Leave(t)
    /\ UNCHANGED <<state, failure_count, last_failure_time, failed, clean>>
    /\ ThreadFrame

\* self.state = "OPEN"; raise exc
Open(t) ==
    /\ th[t].pc = "L77"
    /\ state' = "OPEN"
    /\ Leave(t)
    /\ UNCHANGED <<failure_count, last_failure_time, failed, clean>>
    /\ ThreadFrame

\* self.state = "CLOSED"
Close(t) ==
    /\ th[t].pc = "L83"
    /\ state' = "CLOSED"
    /\ Goto(t, "L84")
    /\ UNCHANGED <<failure_count, last_failure_time, failed, clean>>
    /\ ThreadFrame

\* self.failure_count = 0
ResetCount(t) ==
    /\ th[t].pc = "L84"
    /\ failure_count' = 0
    /\ Goto(t, "L85")
    /\ UNCHANGED <<state, last_failure_time, failed, clean>>
    /\ ThreadFrame

\* self.last_failure_time = None; return result
ClearTime(t) ==
    /\ th[t].pc = "L85"
    /\ last_failure_time' = None
    /\ Leave(t)
    /\ UNCHANGED <<state, failure_count, failed, clean>>
    /\ ThreadFrame

\* one step of thread t inside wrapper
Step(t) ==
    \/ Enter(t)
    \/ CheckOpen(t)
    \/ AssertTime(t)
    \/ CheckCooldown(t)
    \/ Reject(t)
    \/ TryHalfOpen(t)
    \/ FuncReturns(t)
    \/ \E e \in Exceptions : FuncRaises(t, e)
    \/ ReadCount(t)
    \/ WriteCount(t)
    \/ StampFailure(t)
    \/ CheckThreshold(t)
    \/ Open(t)
    \/ Close(t)
    \/ ResetCount(t)
    \/ ClearTime(t)

\* the clock of the concurrent runs reads whole seconds, up to one second
\* past the cooldown
ConcHorizon == (ConcRecovery + 1) * TicksPerSecond

TickCC ==
    /\ now + TicksPerSecond <= ConcHorizon
    /\ now' = now + TicksPerSecond
    /\ UNCHANGED <<cbvars, rlvars, epvars, ccvars, hvars, mfavars>>

CBThreadsInit ==
    /\ th = [t \in Threads |-> IdleFrame]
    /\ failed = 0
    /\ clean = TRUE

\* ------------------------------------------- concurrent is_allowed calls
\* is_allowed takes no lock either: its read of self._store and its write
\* back are separate steps of the calling thread.
\* the key the concurrent callers share
SharedKey == "10.0.0.1"

\* a thread outside is_allowed
IdleCaller == [pc |-> "idle", now |-> 0, entry |-> <<0, 0>>]

\* what a step of a limiter thread leaves alone besides the store
CallerFrame ==
    UNCHANGED <<now, calls, period, rlobs, cbvars, epvars, cbthreads, hvars, mfavars>>

\* the clock of the concurrent limiter runs reads whole seconds, up to one
\* second past the period
LimiterHorizon == (MaxPeriod + 1) * TicksPerSecond

\* the count of one more admission into a window, kept within the range
\* the observation needs
OneMore(n) == IF n <= MaxCalls THEN n + 1 ELSE n

\* now = time.time()
EnterLimiter(t) ==
    /\ lth[t].pc = "idle"
    /\ lth' = [lth EXCEPT ![t] = [pc |-> "L27", now |-> now, entry |-> <<0, 0>>]]
    /\ UNCHANGED <<store, admitted>>
    /\ CallerFrame

\* window, count = self._store.get(key, [now, 0]) and the two tests on the
\* thread's own copy
ReadEntry(t) ==
    LET e == Lookup(store, SharedKey, lth[t].now)
        expired == WindowExpired(lth[t].now, e[1])
        window == IF expired THEN lth[t].now ELSE e[1]
        count == IF expired THEN 0 ELSE e[2]
    IN  /\ lth[t].pc = "L27"
        /\ lth' = [lth EXCEPT ![t].pc = IF QuotaUsed(count) THEN "L35" ELSE "L38",
                              ![t].entry = <<window, count>>]
        /\ UNCHANGED <<store, admitted>>
        /\ CallerFrame

\* self._store[key] = [window, count]; return False, max(0.0, retry)
WriteRejected(t) ==
    /\ lth[t].pc = "L35"
    /\ store' = Put(store, SharedKey, RejectedEntry(lth[t].entry[1], lth[t].entry[2]))
    /\ lth' = [lth EXCEPT ![t] = IdleCaller]
    /\ UNCHANGED admitted
    /\ CallerFrame

\* self._store[key] = [window, count + 1]; return True, None
WriteAdmitted(t) ==
    /\ lth[t].pc = "L38"
    /\ store' = Put(store, SharedKey, AdmittedEntry(lth[t].entry[1], lth[t].entry[2]))
    /\ admitted' = [admitted EXCEPT ![lth[t].entry[1]] = OneMore(@)]
    /\ lth' = [lth EXCEPT ![t] = IdleCaller]
    /\ CallerFrame

TickLC ==
    /\ now + TicksPerSecond <= LimiterHorizon
    /\ now' = now + TicksPerSecond
    /\ UNCHANGED <<cbvars, rlvars, epvars, ccvars, hvars, mfavars>>

RLThreadsInit ==
    /\ lth = [t \in Threads |-> IdleCaller]
    /\ admitted = [w \in 0..LimiterHorizon |-> 0]

CCInit == CBThreadsInit /\ RLThreadsInit

HInit ==
    /\ admit_times = <<>>
    /\ http = None

\* ------------------------------------------------ get_user_bookings
\* what db_get_bookings_by_user returns: None or a list of bookings
DbResults == {None, Some("bookings")}

\* mutant: `except Exception` written before `except ServiceUnavailable`
Handler_broadFirst(o) ==
    IF o.kind # "raise" THEN "else"
    ELSE IF IsInstance(o.what, "Exception") THEN "Exception"
    ELSE "propagate"

\* the except clause of get_user_bookings that catches outcome o of
\* fetch_user(user_id, token)
Handler(o) ==
    IF o.kind # "raise" THEN "else"
    ELSE IF IsInstance(o.what, "ServiceUnavailable") THEN "ServiceUnavailable"
    ELSE IF IsInstance(o.what, "Exception") THEN "Exception"
    ELSE "propagate"

\* the response of get_user_bookings after the authorization checks, for
\* outcome o of the guarded call and result db of the bookings query
get_user_bookings(o, db) ==
    IF Handler(o) = "ServiceUnavailable"
    THEN [status |-> 503, queried |-> FALSE]
    ELSE IF Handler(o) = "Exception"
    THEN [status |-> 502, queried |-> FALSE]
    ELSE [status |-> IF db = None THEN 404 ELSE 200, queried |-> TRUE]

\* get_user_bookings answers the guarded call that has just completed
Respond(db) ==
    /\ pc = "idle"
    /\ call_outcome # Pending
    /\ http' = Some([outcome |-> call_outcome, invoked |-> op_calls,
                     response |-> get_user_bookings(call_outcome, db)])
    /\ UNCHANGED <<now, cbvars, rlvars, epvars, ccvars, admit_times, mfavars>>

\* --------------------------------------------------- users_service.mfa
\* values passed as user_id: an int or a str; str(user_id) is compared
MfaUsers == {<<"int", 7>>, <<"str", 7>>, <<"int", 8>>}

\* the users challenges are created for
MfaOwners == {u \in MfaUsers : u[2] = 7}

\* str(user_id)
Str(u) == u[2]

MfaPurposes == {"login", "sensitive_action"}

\* codes _generate() can return
MfaCodes == {"000017", "004210"}

\* challenge ids: the values str(uuid.uuid4()) returns, each one once
ChallengeIds == {"uuid-a", "uuid-b"}

\* str(uuid.uuid4()) after the ids in used have been handed out
uuid4(used) == CHOOSE id \in ChallengeIds \ used :
                  \A other \in ChallengeIds \ used : id = other \/ id # "uuid-b"

\* mutant: a challenge already expired at its deadline
Expired_inclusive(t, expires_at) == t >= expires_at

\* now > data["expires_at"]
Expired(t, expires_at) == t > expires_at

\* mutant: a verified challenge left in the store
Popped_kept(st, id) == st

\* mfa_challenges.pop(challenge_id, None)
Popped(st, id) == [k \in (DOMAIN st) \ {id} |-> st[k]]

\* create_mfa_challenge(user_id, purpose, ttl_seconds), _generate()
\* returning code
create_mfa_challenge(user_id, purpose, ttl, code) ==
    LET id == uuid4(issued)
        data == [user_id |-> user_id, purpose |-> purpose, code |-> code,
                 expires_at |-> now + ttl * TicksPerSecond]
    IN  /\ issued # ChallengeIds
        /\ issued' = issued \cup {id}
        /\ mfa_challenges' = Put(mfa_challenges, id, data)
        /\ mfa_created' = Put(mfa_created, id,
                              [data |-> data, at |-> now, ttl |-> ttl])
        /\ UNCHANGED <<mfa_verified, mfa_last>>
        /\ UNCHANGED <<now, cbvars, rlvars, epvars, ccvars, hvars>>

\* what verify_mfa_challenge does on store st at time t:
\* "True" or the MFAError it raises
Verdict(st, id, code, user_id, expected_purpose, t) ==
    IF id \notin DOMAIN st THEN "Invalid challenge ID."
    ELSE IF st[id].purpose # expected_purpose
    THEN "Challenge purpose does not match."
    ELSE IF Str(st[id].user_id) # Str(user_id)
    THEN "Challenge does not belong to the user."
    ELSE IF Expired(t, st[id].expires_at) THEN "Challenge has expired."
    ELSE IF st[id].code # code THEN "Invalid challenge code."
    ELSE "True"

\* verify_mfa_challenge(challenge_id, code, user_id, expected_purpose)
verify_mfa_challenge(id, code, user_id, expected_purpose) ==
    LET v == Verdict(mfa_challenges, id, code, user_id, expected_purpose, now)
    IN  /\ mfa_challenges' = IF v = "True" THEN Popped(mfa_challenges, id)
                             ELSE mfa_challenges
        /\ mfa_verified' = IF v = "True" THEN mfa_verified \cup {id}
                           ELSE mfa_verified
        /\ mfa_last' = Some([id |-> id, result |-> v])
        /\ UNCHANGED <<issued, mfa_created>>
        /\ UNCHANGED <<now, cbvars, rlvars, epvars, ccvars, hvars>>

\* time passes between the calls of users_service.mfa
TickMFA ==
    /\ now < MfaHorizon
    /\ now' = now + 1
    /\ UNCHANGED <<cbvars, rlvars, epvars, ccvars, hvars, mfavars>>

MFAInit ==
    /\ mfa_challenges = EmptyStore
    /\ issued = {}
    /\ mfa_created = EmptyStore
    /\ mfa_verified = {}
    /\ mfa_last = None

\* the clock moves on (also while func runs)
Tick ==
    /\ \E d \in 1..MaxTime : now + d <= MaxTime /\ now' = now + d
    /\ UNCHANGED <<cbvars, rlvars, epvars, ccvars, hvars, mfavars>>

\* the breaker under every configuration; the limiter as users_service builds it
Init ==
    /\ now = 0
    /\ CBInit
    /\ RLInit /\ calls = MaxCalls /\ period = MaxPeriod
    /\ EPInit
    /\ CCInit
    /\ HInit
    /\ MFAInit

Next ==
    \/ Begin
    \/ \E v \in Results : OperationReturns(v)
    \/ \E e \in Exceptions : OperationRaises(e)
    \/ Tick

Spec == Init /\ [][Next]_vars

\* the limiter under every configuration; the breaker left as constructed
InitRL ==
    /\ now = 0
    /\ RLInit
    /\ CBInit /\ failure_threshold = MaxThreshold /\ recovery_timeout = MaxRecovery
    /\ EPInit
    /\ CCInit
    /\ HInit
    /\ MFAInit

NextRL ==
    \/ \E addr \in RemoteAddrs : Request(addr)
    \/ Tick

SpecRL == InitRL /\ [][NextRL]_vars

\* the breaker under every configuration, called by get_user_bookings
NextH ==
    \/ Begin
    \/ \E v \in Results : OperationReturns(v)
    \/ \E e \in Exceptions : OperationRaises(e)
    \/ \E db \in DbResults : Respond(db)
    \/ Tick

SpecH == Init /\ [][NextH]_vars

\* one breaker called from the threads of Threads
InitCC ==
    /\ now = 0
    /\ failure_threshold = ConcThreshold
    /\ recovery_timeout = ConcRecovery
    /\ CBStart
    /\ RLInit /\ calls = MaxCalls /\ period = MaxPeriod
    /\ EPInit
    /\ CCInit
    /\ HInit
    /\ MFAInit

NextCC ==
    \/ \E t \in Threads : Step(t)
    \/ TickCC

SpecCC == InitCC /\ [][NextCC]_vars

\* one limiter called from the threads of Threads, for one key
InitLC ==
    /\ now = 0
    /\ RLInit /\ period = MaxPeriod
    /\ CBInit /\ failure_threshold = MaxThreshold /\ recovery_timeout = MaxRecovery
    /\ EPInit
    /\ CCInit
    /\ HInit
    /\ MFAInit

NextLC ==
    \/ \E t \in Threads : EnterLimiter(t)
    \/ \E t \in Threads : ReadEntry(t)
    \/ \E t \in Threads : WriteRejected(t)
    \/ \E t \in Threads : WriteAdmitted(t)
    \/ TickLC

SpecLC == InitLC /\ [][NextLC]_vars

\* mutant: the quota the comment on the decoration speaks of
ScenarioCalls_comment == 5

\* @rate_limit(calls=3, period=30)
ScenarioCalls == 3
ScenarioPeriod == 30

\* the client of the scenario
ScenarioClient == Some("10.0.0.1")

\* the limiter of one decoration, on a clock that runs to ScenarioBHorizon
\* seconds
InitB ==
    /\ now = 0
    /\ calls = ScenarioCalls
    /\ period = ScenarioPeriod
    /\ RLStart
    /\ CBInit /\ failure_threshold = MaxThreshold /\ recovery_timeout = MaxRecovery
    /\ EPInit
    /\ CCInit
    /\ HInit
    /\ MFAInit

\* the scenario's clock reads whole seconds
TickB ==
    /\ \E d \in 1..ScenarioBHorizon :
          /\ now + d * TicksPerSecond <= ScenarioBHorizon * TicksPerSecond
          /\ now' = now + d * TicksPerSecond
    /\ UNCHANGED <<cbvars, rlvars, epvars, ccvars, hvars, mfavars>>

NextB ==
    \/ Request(ScenarioClient)
    \/ TickB

SpecB == InitB /\ [][NextB]_vars

\* one limiter, one client, the times of its admitted calls observed
InitBurst ==
    /\ now = 0
    /\ RLInit
    /\ CBInit /\ failure_threshold = MaxThreshold /\ recovery_timeout = MaxRecovery
    /\ EPInit
    /\ CCInit
    /\ HInit
    /\ MFAInit

NextBurst ==
    \/ TimedRequest(ScenarioClient)
    \/ Tick

SpecBurst == InitBurst /\ [][NextBurst]_vars

\* mutant: the breaker built with the default recovery_timeout
ScenarioTimeout_default == 30

\* user_service_cb = CircuitBreaker(failure_threshold=3, recovery_timeout=20)
ScenarioThreshold == 3
ScenarioTimeout == 20

\* the breaker of circuit_breaker_modules, on a clock that runs to
\* ScenarioAHorizon seconds
InitA ==
    /\ now = 0
    /\ failure_threshold = ScenarioThreshold
    /\ recovery_timeout = ScenarioTimeout
    /\ CBStart
    /\ RLInit /\ calls = MaxCalls /\ period = MaxPeriod
    /\ EPInit
    /\ CCInit
    /\ HInit
    /\ MFAInit

\* the scenario's clock reads whole seconds
TickA ==
    /\ \E d \in 1..ScenarioAHorizon :
          /\ now + d * TicksPerSecond <= ScenarioAHorizon * TicksPerSecond
          /\ now' = now + d * TicksPerSecond
    /\ UNCHANGED <<cbvars, rlvars, epvars, ccvars, hvars, mfavars>>

NextA ==
    \/ Begin
    \/ \E v \in Results : OperationReturns(v)
    \/ \E e \in Exceptions : OperationRaises(e)
    \/ TickA

SpecA == InitA /\ [][NextA]_vars

\* two decorated endpoints and one client, the limiters under every
\* configuration
NextEP ==
    \/ \E ep \in Endpoints, addr \in EndpointClients : RequestTo(ep, addr)
    \/ Tick

SpecEP == InitRL /\ [][NextEP]_vars

\* the challenge store of users_service.mfa
InitMFA ==
    /\ now = 0
    /\ CBInit /\ failure_threshold = MaxThreshold /\ recovery_timeout = MaxRecovery
    /\ RLInit /\ calls = MaxCalls /\ period = MaxPeriod
    /\ EPInit
    /\ CCInit
    /\ HInit
    /\ MFAInit

NextMFA ==
    \/ \E u \in MfaOwners, p \in MfaPurposes, ttl \in 1..MaxTtl, c \in MfaCodes :
          create_mfa_challenge(u, p, ttl, c)
    \/ \E id \in ChallengeIds, c \in MfaCodes, u \in MfaUsers, p \in MfaPurposes :
          verify_mfa_challenge(id, c, u, p)
    \/ TickMFA

SpecMFA == InitMFA /\ [][NextMFA]_vars

\* ------------------------------------------------------------------ claims
ClassifiedRaise == {Raised("RequestException"), Raised("HTTPError")}
Timeout == recovery_timeout * TicksPerSecond
PeriodTicks == period * TicksPerSecond

\* C1: counting the classified failures since construction or the last
\* success, the breaker is CLOSED as long as fewer than failure_threshold
\* of them happened, and is OPEN when the call that completed the
\* failure_threshold-th one returns.
Thm_C1_OpensAtThreshold ==
    /\ streak < failure_threshold => state = "CLOSED"
    /\ (pc = "idle" /\ call_outcome \in ClassifiedRaise
        /\ streak = failure_threshold) => state = "OPEN"

Wit_C1_OpensAtThreshold ==
    /\ pc = "idle" /\ call_outcome \in ClassifiedRaise
    /\ failure_threshold = 3 /\ streak = 3
    /\ pre.state = "CLOSED" /\ state = "OPEN"

\* C2: a call that starts while the breaker is OPEN is rejected with
\* ServiceUnavailable, without invoking the operation, when less than
\* recovery_timeout passed since last_failure_time; otherwise (boundary
\* included) it invokes the operation once, in state HALF_OPEN.
Thm_C2_OpenCooldown ==
    (pre.state = "OPEN" /\ pre.last_failure_time # None) =>
        IF call_now - Val(pre.last_failure_time) < Timeout
        THEN /\ call_outcome.what = "ServiceUnavailable"
             /\ op_calls = 0
             /\ pc = "idle"
        ELSE /\ op_calls = 1
             /\ invoke_state = "HALF_OPEN"
             /\ call_outcome.what # "ServiceUnavailable"
             /\ pc = "running" => state = "HALF_OPEN"

Wit_C2_TrialAtBoundary ==
    /\ pre.state = "OPEN" /\ pre.last_failure_time # None
    /\ call_now - Val(pre.last_failure_time) = Timeout
    /\ pc = "running" /\ state = "HALF_OPEN" /\ op_calls = 1

\* C3: after a HALF_OPEN trial whose operation raised a classified
\* failure, the breaker is OPEN and last_failure_time is that call's now.
Thm_C3_TrialFailureReopens ==
    (pc = "idle" /\ invoke_state = "HALF_OPEN" /\ op_outcome \in ClassifiedRaise) =>
        /\ state = "OPEN"
        /\ last_failure_time = Some(call_now)

Wit_C3_TrialFailureReopens ==
    /\ pc = "idle" /\ invoke_state = "HALF_OPEN" /\ op_outcome \in ClassifiedRaise
    /\ failure_count > failure_threshold
    /\ state = "OPEN" /\ last_failure_time = Some(call_now)

\* C4: after a HALF_OPEN trial whose operation returned, the breaker is
\* CLOSED with failure_count 0 and no last_failure_time, and the caller got
\* the operation's result.
Thm_C4_TrialSuccessCloses ==
    (pc = "idle" /\ invoke_state = "HALF_OPEN" /\ op_outcome.kind = "return") =>
        /\ state = "CLOSED"
        /\ failure_count = 0
        /\ last_failure_time = None
        /\ call_outcome = op_outcome

Wit_C4_TrialSuccessCloses ==
    /\ pc = "idle" /\ invoke_state = "HALF_OPEN" /\ op_outcome.kind = "return"
    /\ pre.state = "OPEN" /\ pre.failure_count > 0
    /\ state = "CLOSED" /\ call_outcome = Returned("user_b")

\* C5: within one run of a key (opened by its first call, or by its first
\* call a period or more after the run before opened), the first `calls`
\* calls return (True, None) and call number calls+1 returns
\* (False, retry_after) with 0 < retry_after <= period.
Thm_C5_FirstNAdmitted ==
    \A k \in Keys : rl_key = Some(k) =>
        /\ run[k][2] <= calls => rl_ret = <<TRUE, None>>
        /\ run[k][2] = calls + 1 =>
              /\ rl_ret[1] = FALSE
              /\ rl_ret[2] # None
              /\ 0 < Val(rl_ret[2])
              /\ Val(rl_ret[2]) <= PeriodTicks

Wit_C5_FirstNAdmitted ==
    /\ calls = 2
    /\ rl_key = Some("unknown")
    /\ run["unknown"][2] = calls + 1
    /\ rl_ret[1] = FALSE
    /\ Val(rl_ret[2]) < PeriodTicks

\* C6: a call for a key whose stored window started a period or more ago
\* (the boundary included) is admitted and leaves (window_start = now,
\* count = 1) under the key, whatever the old count was.
Thm_C6_FreshWindowAtBoundary ==
    [][\A k \in Keys :
          (/\ now' = now
           /\ rl_key' = Some(k)
           /\ k \in DOMAIN store
           /\ now - store[k][1] >= PeriodTicks)
          => (/\ rl_ret' = <<TRUE, None>>
              /\ store'[k] = <<now, 1>>)]_vars

Wit_C6_FreshWindowAtBoundary ==
    \E k \in Keys :
        /\ rl_key = Some(k)
        /\ rl_pre # None
        /\ Val(rl_pre)[2] = calls
        /\ rl_ret[1] = TRUE
        /\ store[k] = <<Val(rl_pre)[1] + PeriodTicks, 1>>

\* C7: every key's stored entry and last decision are those of a limiter
\* that received that key's calls alone, at the same times: calls for other
\* keys change neither.
Thm_C7_KeysIndependent ==
    \A k \in Keys :
        /\ (k \in DOMAIN store) = (k \in DOMAIN solo[k].store)
        /\ k \in DOMAIN store => store[k] = solo[k].store[k]
        /\ rl_key = Some(k) => rl_ret = solo[k].ret

Wit_C7_KeysIndependent ==
    /\ rl_key = Some("unknown")
    /\ rl_ret[1] = TRUE
    /\ "10.0.0.1" \in DOMAIN store
    /\ store["10.0.0.1"][2] = calls
    /\ solo["10.0.0.1"].ret[1] = FALSE
    /\ store["unknown"][1] = store["10.0.0.1"][1]

\* ceil of a duration of `ticks` ticks, in seconds
CeilSeconds(ticks) == (ticks + TicksPerSecond - 1) \div TicksPerSecond

\* C8: a rejected request is answered 429 with Retry-After equal to
\* ceil(retry_after), retry_after being what is_allowed returned.
Claim_C8_RetryAfterCeil ==
    rl_ret[1] = FALSE =>
        /\ response.status = 429
        /\ response.retry_after = Some(CeilSeconds(Val(rl_ret[2])))

\* C9 as claimed: after an unclassified failure, state, failure_count and
\* last_failure_time are those of the start of the call.
Claim_C9_UnclassifiedNoChange ==
    (pc = "idle" /\ op_outcome = Raised("ValueError")) => Fields = pre

\* C9: after an unclassified failure, failure_count and last_failure_time
\* are those of the start of the call and state is the one the operation
\* was invoked in: the start state for CLOSED and HALF_OPEN, HALF_OPEN for
\* a call that started OPEN with the cooldown elapsed.
Thm_C9_UnclassifiedNoChangeSinceInvoke ==
    (pc = "idle" /\ op_outcome = Raised("ValueError")) =>
        /\ failure_count = pre.failure_count
        /\ last_failure_time = pre.last_failure_time
        /\ state = invoke_state
        /\ state = IF pre.state = "OPEN" THEN "HALF_OPEN" ELSE pre.state

Wit_C9_UnclassifiedAfterCooldown ==
    /\ pc = "idle" /\ op_outcome = Raised("ValueError")
    /\ pre.state = "OPEN"
    /\ state = "HALF_OPEN"
    /\ failure_count = pre.failure_count

\* the cooldown left when the last call started, in ticks
Remaining == Timeout - (call_now - Val(last_failure_time))

\* C10 as claimed: the rejection carries the breaker's name and exactly
\* recovery_timeout - (now - last_failure_time), within 0..recovery_timeout.
Claim_C10_RemainingExact ==
    call_outcome.what = "ServiceUnavailable" =>
        /\ call_outcome.name = "users_service"
        /\ call_outcome.retry * TicksPerSecond = Remaining
        /\ call_outcome.retry >= 0
        /\ call_outcome.retry <= recovery_timeout

\* C10: the rejection carries the breaker's name and the whole seconds of
\* recovery_timeout - (now - last_failure_time), within 0..recovery_timeout.
Thm_C10_RemainingWholeSeconds ==
    call_outcome.what = "ServiceUnavailable" =>
        /\ call_outcome.name = "users_service"
        /\ call_outcome.retry * TicksPerSecond <= Remaining
        /\ Remaining < (call_outcome.retry + 1) * TicksPerSecond
        /\ call_outcome.retry >= 0
        /\ call_outcome.retry <= recovery_timeout

Wit_C10_FractionalRemaining ==
    /\ call_outcome.what = "ServiceUnavailable"
    /\ recovery_timeout = 2
    /\ Remaining = TicksPerSecond + 1
    /\ call_outcome.retry = 1

\* C11: a guarded call invokes the operation at most once: not at all when
\* it ends in ServiceUnavailable, once when it is running or has ended in
\* the operation's own outcome.
Thm_C11_AtMostOneInvocation ==
    /\ op_calls \in {0, 1}
    /\ call_outcome.what = "ServiceUnavailable" => op_calls = 0
    /\ pc = "running" => op_calls = 1
    /\ (pc = "idle" /\ op_outcome # Pending) => op_calls = 1

Wit_C11_FailureNotRetried ==
    /\ pc = "idle" /\ op_outcome \in ClassifiedRaise
    /\ state = "CLOSED" /\ failure_count = 1
    /\ op_calls = 1

\* C12: when the operation was invoked, the caller gets exactly what the
\* operation produced, and after a classified failure failure_count was
\* incremented and last_failure_time set to the call's now.
Thm_C12_OutcomeUnchanged ==
    (pc = "idle" /\ op_outcome # Pending) =>
        /\ call_outcome = op_outcome
        /\ call_outcome.what # "ServiceUnavailable"
        /\ op_outcome \in ClassifiedRaise =>
              /\ failure_count = pre.failure_count + 1
              /\ last_failure_time = Some(call_now)

Wit_C12_FailureReraised ==
    /\ pc = "idle" /\ op_outcome = Raised("HTTPError")
    /\ call_outcome = Raised("HTTPError")
    /\ state = "OPEN" /\ pre.state = "HALF_OPEN"
    /\ failure_count = pre.failure_count + 1

\* C14: in every state of sequential use, OPEN implies that
\* last_failure_time is set.
Thm_C14_OpenHasFailureTime ==
    state = "OPEN" => last_failure_time # None

Wit_C14_OpenPathTaken ==
    /\ state = "OPEN" /\ last_failure_time # None
    /\ pc = "idle" /\ call_outcome.what = "ServiceUnavailable"

\* C13: is_allowed returns no retry_after exactly when it admits; after a
\* rejection at time t with retry_after r, the key's next call is admitted
\* if it comes at t + r or later and rejected if it comes before.
Thm_C13_RetryAfterIsNextWindow ==
    /\ [](rl_ret[1] = (rl_ret[2] = None))
    /\ [][\A k \in Keys :
            (/\ now' = now
             /\ rl_key' = Some(k)
             /\ last[k] # None
             /\ Val(last[k])[2][1] = FALSE)
            => (rl_ret'[1] = (now >= Val(last[k])[1] + Val(Val(last[k])[2][2])))]_vars

Wit_C13_RetryTimeReached ==
    \E k \in Keys :
        /\ last[k] # None
        /\ Val(last[k])[2][1] = FALSE
        /\ Val(Val(last[k])[2][2]) = 1
        /\ now = Val(last[k])[1] + 1
        /\ rl_key # Some(k)

\* C16: at every decorated endpoint, the last decision is the one of a
\* limiter that received that endpoint's requests alone: the same client's
\* requests to the other endpoint do not change it.
Thm_C16_EndpointsIsolated ==
    \A ep \in Endpoints : ep_last[ep] = ep_solo[ep].last

Wit_C16_ExhaustedOnRegisterOnly ==
    /\ ep_last["register_user"] = Some(<<"10.0.0.1", <<FALSE, Some(PeriodTicks)>>>>)
    /\ ep_last["login_user"] = Some(<<"10.0.0.1", <<TRUE, None>>>>)
    /\ limiters["login_user"]["10.0.0.1"] = <<now, 1>>
    /\ calls = 2

\* C17: for the breaker built with failure_threshold 3 and
\* recovery_timeout 20, the third classified failure in a row leaves it
\* OPEN; a call 10 s after the last failure is rejected with 10 s left and
\* no invocation; a call 21 s after it invokes the operation in HALF_OPEN
\* and, when the operation returns, leaves CLOSED with failure_count 0.
Thm_C17_ScenarioA ==
    /\ (pc = "idle" /\ call_outcome \in ClassifiedRaise /\ streak = 3) =>
           /\ state = "OPEN"
           /\ last_failure_time = Some(call_now)
    /\ (/\ pre.state = "OPEN" /\ pre.failure_count = 3
        /\ call_now = Val(pre.last_failure_time) + 10 * TicksPerSecond) =>
           /\ call_outcome.what = "ServiceUnavailable"
           /\ call_outcome.retry = 10
           /\ op_calls = 0
           /\ state = "OPEN"
    /\ (/\ pre.state = "OPEN" /\ pre.failure_count = 3
        /\ call_now = Val(pre.last_failure_time) + 21 * TicksPerSecond) =>
           /\ op_calls = 1
           /\ invoke_state = "HALF_OPEN"
           /\ (pc = "idle" /\ op_outcome.kind = "return") =>
                  /\ state = "CLOSED"
                  /\ failure_count = 0

Wit_C17_TrialAt21Closes ==
    /\ pre.state = "OPEN" /\ pre.failure_count = 3
    /\ pre.last_failure_time = Some(0)
    /\ call_now = 21 * TicksPerSecond
    /\ pc = "idle" /\ op_outcome.kind = "return"
    /\ state = "CLOSED" /\ failure_count = 0

\* C18: for the limiter built with calls 3 and period 30, the first three
\* calls of a key at t = 0 are admitted and leave counts 1, 2, 3; a call at
\* t = 5 that finds (0, 3) is rejected with retry_after 25 and leaves the
\* entry alone; a call at t = 31 that finds (0, 3) is admitted and leaves
\* (window_start = 31, count = 1).
Thm_C18_ScenarioB ==
    LET k == ClientKey(ScenarioClient)
        at(sec) == last[k] # None /\ Val(last[k])[1] = sec * TicksPerSecond
    IN  /\ (at(0) /\ run[k][2] \in 1..3) =>
               /\ rl_ret = <<TRUE, None>>
               /\ store[k] = <<0, run[k][2]>>
        /\ (at(5) /\ rl_pre = Some(<<0, 3>>)) =>
               /\ rl_ret = <<FALSE, Some(25 * TicksPerSecond)>>
               /\ store[k] = <<0, 3>>
        /\ (at(31) /\ rl_pre = Some(<<0, 3>>)) =>
               /\ rl_ret = <<TRUE, None>>
               /\ store[k] = <<31 * TicksPerSecond, 1>>

Wit_C18_NewWindowAt31 ==
    /\ last["10.0.0.1"] = Some(<<31 * TicksPerSecond, <<TRUE, None>>>>)
    /\ rl_pre = Some(<<0, 3>>)
    /\ store["10.0.0.1"] = <<31 * TicksPerSecond, 1>>

\* C15: the breaker is never left, with no call in flight, in a state from
\* which every later call fails before invoking the operation: OPEN with
\* no last_failure_time, where the assertion of the OPEN path stops each
\* call and nothing is written.
Claim_C15_NoTerminalState ==
    AllIdle => ~(state = "OPEN" /\ last_failure_time = None)

\* C20: once every concurrent call has completed and each operation that
\* ran raised a classified exception, failure_count is the number of those
\* calls and the breaker is OPEN when that number has reached the
\* threshold.
Claim_C20_FailuresAllCounted ==
    (AllIdle /\ clean) =>
        /\ failure_count = failed
        /\ ThresholdReached(failed) => state = "OPEN"

\* C19: the calls admitted into one window of the shared key are never
\* more than calls.
Claim_C19_QuotaUnderRaces ==
    \A w \in DOMAIN admitted : admitted[w] <= calls

\* C21: in every interleaving of the concurrent calls, OPEN implies that
\* last_failure_time is set, and a caller at the assertion of the OPEN path
\* finds it set.
Claim_C21_OpenHasTimeUnderRaces ==
    /\ state = "OPEN" => last_failure_time # None
    /\ \A t \in Threads : th[t].pc = "L58" => last_failure_time # None

\* C22: nothing limits the trials: a caller that reads HALF_OPEN at the
\* state test goes on to invoke the operation whatever the other callers
\* are doing, and so does a caller that has just set HALF_OPEN.
Thm_C22_TrialsNotLimited ==
    [][\A t \in Threads :
          /\ (th[t].pc = "L57" /\ state = "HALF_OPEN" /\ th'[t] # th[t])
                => th'[t].pc = "L69"
          /\ (th[t].pc = "L66" /\ th'[t] # th[t])
                => (th'[t].pc = "L69" /\ state' = "HALF_OPEN")]_vars

Wit_C22_TwoTrialsAtOnce ==
    /\ state = "HALF_OPEN"
    /\ last_failure_time # None
    /\ \A t \in Threads : th[t].pc = "L69" /\ ~CooldownActive(th[t].now)

\* C23: a rejected is_allowed call leaves the key's entry as it found it,
\* and the time it announces for the next admission is the end of that
\* same window.
Thm_C23_RejectionLeavesEntry ==
    [][\A k \in Keys :
          (now' = now /\ rl_key' = Some(k) /\ rl_ret'[1] = FALSE)
          => (/\ k \in DOMAIN store
              /\ store'[k] = store[k]
              /\ now + Val(rl_ret'[2]) = store[k][1] + PeriodTicks)]_vars

Wit_C23_RejectedLaterInWindow ==
    \E k \in Keys :
        /\ rl_key = Some(k)
        /\ rl_ret = <<FALSE, Some(1)>>
        /\ rl_pre = Some(<<now - PeriodTicks + 1, calls>>)
        /\ store[k] = Val(rl_pre)

\* C24: the shared key's stored window_start never decreases, also when
\* the calls interleave, and a change of it is an increase by a period or
\* more.
Claim_C24_WindowOnlyForward ==
    [][(/\ SharedKey \in DOMAIN store
        /\ store'[SharedKey][1] # store[SharedKey][1])
       => store'[SharedKey][1] >= store[SharedKey][1] + PeriodTicks]_vars

\* the admitted calls in the interval shorter than a period that ends at
\* the last admitted call
ShortBurst ==
    LET n == Len(admit_times)
    IN  Cardinality({i \in 1..n : admit_times[n] - admit_times[i] < PeriodTicks})

\* C25 as claimed: an interval shorter than a period never holds more than
\* 2*calls admitted calls, and when the 2*calls admissions of two adjacent
\* windows lie a period or less apart they make a burst of 2*calls in an
\* interval shorter than a period.
Claim_C25_BurstOfTwiceCalls ==
    /\ ShortBurst <= 2 * calls
    /\ Len(admit_times) = 2 * calls => ShortBurst = 2 * calls

\* C25: an interval shorter than a period never holds more than
\* 2*calls - 1 admitted calls of a key (the first admission of a window is
\* at its window_start, and the next window starts a period or more
\* later); an interval of exactly a period holds at most 2*calls.
Thm_C25_BurstBelowTwiceCalls ==
    /\ ShortBurst <= 2 * calls - 1
    /\ Len(admit_times) <= 2 * calls

Wit_C25_TwoFullWindowsAPeriodApart ==
    /\ calls = 2
    /\ Len(admit_times) = 2 * calls
    /\ admit_times[4] - admit_times[1] = PeriodTicks
    /\ ShortBurst = 2 * calls - 1

\* C26: get_user_bookings answers a ServiceUnavailable of the guarded call
\* with 503 and any other exception of it with 502, in both cases without
\* the bookings query; it makes the query, and answers 200 or 404, exactly
\* when the call returned.
Thm_C26_OutcomesDistinguished ==
    http # None =>
        LET o == Val(http).outcome
            r == Val(http).response
        IN  /\ (o.kind = "raise" /\ o.what = "ServiceUnavailable")
                  => (r.status = 503 /\ ~r.queried)
            /\ (o.kind = "raise" /\ o.what # "ServiceUnavailable")
                  => (r.status = 502 /\ ~r.queried)
            /\ o.kind = "return" => (r.queried /\ r.status \in {200, 404})
            /\ r.queried => o.kind = "return"

Wit_C26_RejectionAnswered503 ==
    /\ http # None
    /\ Val(http).outcome = call_outcome
    /\ call_outcome.what = "ServiceUnavailable"
    /\ Val(http).invoked = 0
    /\ Val(http).response.status = 503

\* C27: every stored count is between 1 and calls; a key is stored exactly
\* when is_allowed has been called with it; a stored key stays stored.
Thm_C27_StoreShape ==
    /\ [](\A k \in Keys :
            /\ (k \in DOMAIN store) = (last[k] # None)
            /\ k \in DOMAIN store => (1 <= store[k][2] /\ store[k][2] <= calls))
    /\ [][DOMAIN store \subseteq DOMAIN store']_vars

Wit_C27_BothKeysStored ==
    /\ DOMAIN store = Keys
    /\ store["10.0.0.1"][2] = calls
    /\ store["unknown"][2] = 1
    /\ calls > 1
    /\ Val(last["10.0.0.1"])[2][1] = FALSE

\* C28: with no guarded call in flight, CLOSED has failure_count below the
\* threshold and OPEN and HALF_OPEN have it at or above the threshold; a
\* failed trial adds one to it.
Thm_C28_StateBoundsCount ==
    pc = "idle" =>
        /\ state = "CLOSED" => failure_count < failure_threshold
        /\ state \in {"OPEN", "HALF_OPEN"} => failure_count >= failure_threshold
        /\ (invoke_state = "HALF_OPEN" /\ op_outcome \in ClassifiedRaise)
              => failure_count = pre.failure_count + 1

Wit_C28_CountGrowsWhileOpen ==
    /\ pc = "idle" /\ state = "OPEN"
    /\ invoke_state = "HALF_OPEN" /\ op_outcome \in ClassifiedRaise
    /\ pre.failure_count = failure_threshold
    /\ failure_count = failure_threshold + 1

\* C29: failure_count is 0 exactly when last_failure_time is None, and a
\* call that was rejected or whose operation raised an unclassified
\* exception leaves both as it found them.
Thm_C29_CountZeroIffNoTime ==
    /\ (failure_count = 0) = (last_failure_time = None)
    /\ (/\ pc = "idle"
        /\ \/ call_outcome.what = "ServiceUnavailable"
           \/ (op_outcome.kind = "raise" /\ ~IsClassified(op_outcome.what)))
       => /\ failure_count = pre.failure_count
          /\ last_failure_time = pre.last_failure_time

Wit_C29_ClearedTogether ==
    /\ pc = "idle" /\ op_outcome.kind = "return"
    /\ pre.failure_count > 0 /\ pre.last_failure_time # None
    /\ failure_count = 0 /\ last_failure_time = None

\* C30: between two guarded calls current_state() is HALF_OPEN only when
\* the last call invoked the operation and it raised an unclassified
\* exception; after a trial that returned it is CLOSED, after a trial that
\* raised a classified exception it is OPEN.
Thm_C30_HalfOpenOnlyAfterUnclassified ==
    pc = "idle" =>
        /\ current_state = "HALF_OPEN" =>
              /\ op_calls = 1
              /\ op_outcome.kind = "raise"
              /\ ~IsClassified(op_outcome.what)
        /\ (invoke_state = "HALF_OPEN" /\ op_outcome.kind = "return")
              => current_state = "CLOSED"
        /\ (invoke_state = "HALF_OPEN" /\ op_outcome \in ClassifiedRaise)
              => current_state = "OPEN"

Wit_C30_HalfOpenBetweenCalls ==
    /\ pc = "idle" /\ current_state = "HALF_OPEN"
    /\ pre.state = "HALF_OPEN"
    /\ op_outcome = Raised("ValueError")

\* C31: while the breaker is OPEN and the cooldown has not elapsed, no
\* step of any caller, in flight or new, changes state, failure_count or
\* last_failure_time.
Claim_C31_OpenHeldDuringCooldown ==
    [][(/\ state = "OPEN"
        /\ last_failure_time # None
        /\ CooldownActive(now))
       => (/\ state' = "OPEN"
           /\ failure_count' = failure_count
           /\ last_failure_time' = last_failure_time)]_vars

\* C32: a call that arrives less than recovery_timeout after the moment
\* the failing call completed and set the state to OPEN is rejected: it
\* leaves the breaker OPEN and the operation is not invoked.
Claim_C32_FullCooldownAfterOpening ==
    [][(/\ pc = "idle"
        /\ state = "OPEN"
        /\ opened_at # None
        /\ now - Val(opened_at) < Timeout
        /\ now' = now)
       => (pc' = "idle" /\ state' = "OPEN")]_vars

\* C33: after a 429 at time t with Retry-After r, the same client's next
\* request, sent at t + r with no request of its own in between, is
\* admitted.
Claim_C33_RetryAfterHeaderHonoured ==
    [][\A k \in Keys :
          (/\ rl_key = Some(k)
           /\ response.status = 429
           /\ now = Val(last[k])[1] + Val(response.retry_after) * TicksPerSecond
           /\ now' = now
           /\ rl_key' = Some(k))
          => rl_ret'[1] = TRUE]_vars

\* the deadline c + T of a challenge that was created, in ticks
Deadline(id) == mfa_created[id].at + mfa_created[id].ttl * TicksPerSecond

\* verify_mfa_challenge was just called
Verified == mfa_last' # mfa_last

\* C34: an MFA challenge is single-use: once verify_mfa_challenge has
\* returned True for a challenge_id, every later call with that id raises
\* MFAError whatever code, user and purpose it is given, and a verification
\* that fails leaves the store as it was.
Thm_C34_ChallengeSingleUse ==
    /\ [](\A id \in mfa_verified, c \in MfaCodes, u \in MfaUsers,
             p \in MfaPurposes :
             Verdict(mfa_challenges, id, c, u, p, now) # "True")
    /\ [][(Verified /\ Val(mfa_last').id \in mfa_verified)
          => Val(mfa_last').result # "True"]_vars
    /\ [][(Verified /\ Val(mfa_last').result # "True")
          => mfa_challenges' = mfa_challenges]_vars

\* a challenge that has verified was presented again and refused
Wit_C34_ReusedChallengeRefused ==
    /\ mfa_last # None
    /\ Val(mfa_last).id \in mfa_verified
    /\ Val(mfa_last).result = "Invalid challenge ID."

\* C35: a challenge created at time c with ttl_seconds = T never verifies
\* at a time now > c + T, whatever it is given, while at now <= c + T an
\* unused challenge verifies when code, user and purpose match.
Thm_C35_ChallengeExpiry ==
    /\ [](\A id \in DOMAIN mfa_created :
             LET data == mfa_created[id].data
             IN  /\ now > Deadline(id)
                    => \A c \in MfaCodes, u \in MfaUsers, p \in MfaPurposes :
                          Verdict(mfa_challenges, id, c, u, p, now) # "True"
                 /\ (now <= Deadline(id) /\ id \notin mfa_verified)
                    => \A u \in MfaUsers :
                          Str(u) = Str(data.user_id)
                          => Verdict(mfa_challenges, id, data.code, u,
                                     data.purpose, now) = "True")
    /\ [][(Verified /\ Val(mfa_last').result = "True")
          => now <= Deadline(Val(mfa_last').id)]_vars

\* a challenge was refused as expired one tick after its deadline
Wit_C35_RefusedPastDeadline ==
    /\ mfa_last # None
    /\ Val(mfa_last).result = "Challenge has expired."
    /\ now = Deadline(Val(mfa_last).id) + 1

====
